---- MODULE Spec2Model ----
(***************************************************************************)
(* P2PManager of EOS-testing (src/src/p2p/p2p_manager.cpp) as a state      *)
(* machine.  The source is one class compiled in two ways: with            *)
(* EOS_STUB_MODE defined (the "stub" build, which simulates the network)   *)
(* and without it (the "SDK" build, which calls the EOS transport).  The   *)
(* build is chosen once, in Init.  One action models one whole public      *)
(* method or one whole notification handler.  lastOp records the step      *)
(* just taken: the operation, its arguments and result, the calls it made  *)
(* on the transport and the consumer handlers it invoked, in order.        *)
(* The three callback fields are public members the consumer assigns at    *)
(* will between calls, so the value a method reads is an input of it.      *)
(***************************************************************************)
EXTENDS Integers, Sequences, FiniteSets

(* ------------------------------ bounds --------------------------------- *)
NumPeers == 2
MaxPacketCfg == 2
MaxBytes == 2
MaxOrdered == 3
MaxFired == 2
MaxDrain == 2
MaxDepth == 3

(* ------------------------- program constants --------------------------- *)
Nil == 0
StubPingMs == 25
HelloSize == 1
HelloChannel == 0

Peers == 1..NumPeers
PeerArgs == Peers \cup {Nil}
Channels == {0, 1}
Reliabilities == {"UnreliableUnordered", "ReliableUnordered", "ReliableOrdered"}
ConnectionStatus == {"Disconnected", "Connecting", "Connected", "ConnectionFailed"}
NoEntry == [status |-> "absent"]

\* P2PConfig: the configurations a caller passes to initialize, with a
\* max_packet_size that admits at least the one-byte hello; the default one
\* of the header is the state before the first initialize.
P2PConfig == [max_packet_size : 1..MaxPacketCfg]
DefaultConfig == [max_packet_size |-> MaxPacketCfg]

VARIABLES
    stub,                       \* TRUE: built with EOS_STUB_MODE
    m_logged_in,                \* AuthManager::m_logged_in
    platform_handle,            \* Platform::get_handle() is not null
    callbacks_registered,       \* the SDK holds the three notification lambdas
    m_initialized,
    m_config,
    m_connections,              \* peer -> PeerConnection or NoEntry
    m_incoming_packets,         \* the stub build's queue of IncomingPacket
    sdk_packets,                \* the SDK's receive buffer (EOS_P2P_ReceivePacket)
    inflight,                   \* datagrams a remote peer sent, not yet handed over
    remote_next,                \* peer -> number of ordered datagrams it has sent
    lastOp,
    established_fired,          \* history: on-connected invocations since connect
    accept_filter,              \* history: the consumer's last accept_connections
    sdk_accepted,               \* the peers the SDK was told to accept
    dropped,                    \* history: packets removed while no handler was set
    stale,                      \* history: packets in the queue at the last shutdown
    handed,                     \* history: packets a thread's drain gave the handler
    stack,                      \* thread -> its call stack, innermost frame last
    mutex                       \* m_connections_mutex, m_packets_mutex -> owner

vars == <<stub, m_logged_in, platform_handle, callbacks_registered, m_initialized,
          m_config, m_connections, m_incoming_packets, sdk_packets,
          inflight, remote_next, lastOp, established_fired, accept_filter,
          sdk_accepted, dropped, stale, handed, stack, mutex>>

authVars == <<m_logged_in, platform_handle>>
queueVars == <<m_incoming_packets, sdk_packets, inflight, remote_next>>
threadVars == <<stack, mutex>>
historyVars == <<established_fired, accept_filter, sdk_accepted, dropped, stale, handed,
                 threadVars>>

\* The threads: the consumer's, which calls the public methods, and the one
\* on which the SDK runs the notification lambdas.
Threads == {"consumer", "notifier"}
Locks == {"m_connections_mutex", "m_packets_mutex"}
Free == "free"

(* ------------------------------ helpers -------------------------------- *)
\* PeerConnection as default-constructed, then the fields the caller sets.
PeerConnection(peer, name, status, ping) ==
    [peer_id |-> peer, display_name |-> name, status |-> status,
     is_relay |-> FALSE, ping_ms |-> ping, bytes_sent |-> 0, bytes_received |-> 0]

IncomingPacket(sender, channel, size, seq) ==
    [sender |-> sender, channel |-> channel, size |-> size, seq |-> seq]

\* The elements of a sequence.
Range(seq) == {seq[i] : i \in 1..Len(seq)}

HasEntry(conns, p) == p \in Peers /\ conns[p] # NoEntry

StatusOf(conns, p) == IF HasEntry(conns, p) THEN conns[p].status ELSE "absent"

\* The queries, each a read of the table under m_connections_mutex.
nullopt == [status |-> "nullopt"]
get_peer_connection(conns, p) == IF HasEntry(conns, p) THEN conns[p] ELSE nullopt
get_all_connections(conns) == {conns[p] : p \in {q \in Peers : HasEntry(conns, q)}}
is_connected_to(conns, p) == HasEntry(conns, p) /\ conns[p].status = "Connected"
get_peer_count(conns) == Cardinality({p \in Peers : is_connected_to(conns, p)})

\* The record of a step: pre is the status the peer argument had before it,
\* ok the returned value (TRUE for a void method), n a size or a count.
\* handler tells whether the callback field of the operation's kind
\* (on_connection_established for connecting, on_connection_closed for
\* disconnecting, on_packet_received for receiving) was set at the call.
Op(name, peer, n, ok, pre, handler, calls, events) ==
    [op |-> name, peer |-> peer, n |-> n, ok |-> ok, pre |-> pre,
     handler |-> handler, calls |-> calls, events |-> events]

EnvOp(name, peer) == Op(name, peer, 0, TRUE, "absent", FALSE, <<>>, <<>>)

\* A call on the transport and an invocation of a consumer handler.
TransportCall(fn, peer, size, channel, rel, ok) ==
    [fn |-> fn, peer |-> peer, size |-> size, channel |-> channel, rel |-> rel, ok |-> ok]

ConnEvent(h, peer, status) == [h |-> h, peer |-> peer, status |-> status]

PacketEvent(pkt) == [h |-> "on_packet_received", packet |-> pkt]

(* ------------------------------- Init ---------------------------------- *)
Init ==
    /\ stub \in BOOLEAN
    /\ m_logged_in = FALSE
    /\ platform_handle = FALSE
    /\ callbacks_registered = FALSE
    /\ m_initialized = FALSE
    /\ m_config = DefaultConfig
    /\ m_connections = [p \in Peers |-> NoEntry]
    /\ m_incoming_packets = <<>>
    /\ sdk_packets = <<>>
    /\ inflight = {}
    /\ remote_next = [p \in Peers |-> 0]
    /\ lastOp = EnvOp("construct", Nil)
    /\ established_fired = [p \in Peers |-> -1]
    /\ accept_filter = {}
    /\ sdk_accepted = {}
    /\ dropped = {}
    /\ stale = {}
    /\ handed = {}
    /\ stack = [t \in Threads |-> <<>>]
    /\ mutex = [l \in Locks |-> Free]

(* ------------------- collaborators and registrations ------------------- *)
\* AuthManager::login_device_id (stub path and SDK completion): logs in.
login_device_id ==
    /\ ~m_logged_in
    /\ m_logged_in' = TRUE
    /\ lastOp' = EnvOp("login_device_id", Nil)
    /\ UNCHANGED <<stub, platform_handle, callbacks_registered, m_initialized, m_config,
                   m_connections, queueVars>>

\* AuthManager::logout.
logout ==
    /\ m_logged_in
    /\ m_logged_in' = FALSE
    /\ lastOp' = EnvOp("logout", Nil)
    /\ UNCHANGED <<stub, platform_handle, callbacks_registered, m_initialized, m_config,
                   m_connections, queueVars>>

\* Platform::initialize / Platform::shutdown as seen through get_handle():
\* the SDK build's methods return early on a null handle.  The stub build's
\* P2PManager never reads the handle.  Releasing the platform releases the
\* SDK's notifications and its receive buffer.
platform_initialize ==
    /\ ~stub /\ ~platform_handle
    /\ platform_handle' = TRUE
    /\ lastOp' = EnvOp("platform_initialize", Nil)
    /\ UNCHANGED <<stub, m_logged_in, callbacks_registered, m_initialized, m_config,
                   m_connections, queueVars>>

platform_shutdown ==
    /\ ~stub /\ platform_handle
    /\ platform_handle' = FALSE
    /\ callbacks_registered' = FALSE
    /\ sdk_packets' = <<>>
    /\ lastOp' = EnvOp("platform_shutdown", Nil)
    /\ UNCHANGED <<stub, m_logged_in, m_initialized, m_config, m_connections,
                   m_incoming_packets, inflight, remote_next>>

(* ------------------------- initialize / shutdown ----------------------- *)
\* register_callbacks: hands the three lambdas to the SDK unless the handle is null.
register_callbacks_result == callbacks_registered \/ (~stub /\ platform_handle)

\* initialize_ok without the test of AuthManager::is_logged_in.
initialize_ok_ignoring_login == m_initialized \/ stub \/ platform_handle

\* initialize_ok with the test of is_logged_in ahead of the test of m_initialized.
initialize_ok_login_first == m_logged_in /\ (m_initialized \/ stub \/ platform_handle)

initialize_ok == m_initialized \/ (m_logged_in /\ (stub \/ platform_handle))

\* initialize that stores the configuration before it tests m_initialized.
initialize_storing_config_first ==
    \E config \in P2PConfig :
        /\ m_config' = config
        /\ IF m_initialized \/ ~m_logged_in
             THEN UNCHANGED <<m_initialized, callbacks_registered>>
             ELSE /\ m_initialized' = (stub \/ platform_handle)
                  /\ callbacks_registered' =
                        IF stub THEN callbacks_registered
                                ELSE register_callbacks_result
        /\ lastOp' = Op("initialize", Nil, config.max_packet_size, initialize_ok,
                        "absent", FALSE, <<>>, <<>>)
        /\ UNCHANGED <<stub, authVars, m_connections, queueVars>>

initialize ==
    \E config \in P2PConfig :
        /\ IF m_initialized
             THEN UNCHANGED <<m_config, m_initialized, callbacks_registered>>
             ELSE IF ~m_logged_in
                    THEN UNCHANGED <<m_config, m_initialized, callbacks_registered>>
                    ELSE /\ m_config' = config
                         /\ m_initialized' = (stub \/ platform_handle)
                         /\ callbacks_registered' =
                               IF stub THEN callbacks_registered
                                       ELSE register_callbacks_result
        /\ lastOp' = Op("initialize", Nil, config.max_packet_size, initialize_ok,
                        "absent", FALSE, <<>>, <<>>)
        /\ UNCHANGED <<stub, authVars, m_connections, queueVars>>

(* ------------------------------ send_packet ---------------------------- *)
\* send_valid with the size check off by one: a payload of exactly
\* max_packet_size bytes is refused.
send_valid_excluding_limit(peer, data, size) ==
    /\ m_initialized /\ peer # Nil /\ data /\ size # 0
    /\ ~(size >= m_config.max_packet_size)

\* send_valid without the test for an empty payload.
send_valid_ignoring_empty(peer, data, size) ==
    /\ m_initialized /\ peer # Nil /\ data
    /\ ~(size > m_config.max_packet_size)

\* The checks at the head of send_packet: initialized, peer, data, size.
send_valid(peer, data, size) ==
    /\ m_initialized /\ peer # Nil /\ data /\ size # 0
    /\ ~(size > m_config.max_packet_size)

\* TRUE when send_packet reaches EOS_P2P_SendPacket.
send_reaches_transport(peer, data, size) ==
    send_valid(peer, data, size) /\ ~stub /\ platform_handle

\* The calls send_packet makes on the transport; tok is EOS_P2P_SendPacket's
\* answer.  The stub build contacts nothing.
send_calls(peer, data, size, channel, rel, tok) ==
    IF send_reaches_transport(peer, data, size)
      THEN <<TransportCall("EOS_P2P_SendPacket", peer, size, channel, rel, tok)>>
      ELSE <<>>

send_result(peer, data, size, tok) ==
    /\ send_valid(peer, data, size)
    /\ stub \/ (platform_handle /\ tok)

\* send_table that counts the bytes of every valid send, whatever the
\* transport answered.
send_table_counting_attempts(conns, peer, data, size, tok) ==
    IF send_valid(peer, data, size) /\ HasEntry(conns, peer)
      THEN [conns EXCEPT ![peer].bytes_sent = @ + size]
      ELSE conns

\* send_table that gives up the peer's entry when the transport refuses.
send_table_dropping_on_failure(conns, peer, data, size, tok) ==
    IF ~HasEntry(conns, peer) \/ ~send_valid(peer, data, size) THEN conns
    ELSE IF stub \/ (platform_handle /\ tok)
      THEN [conns EXCEPT ![peer].bytes_sent = @ + size]
      ELSE [conns EXCEPT ![peer] = NoEntry]

\* The table after send_packet on table conns.
send_table(conns, peer, data, size, tok) ==
    IF send_result(peer, data, size, tok) /\ HasEntry(conns, peer)
      THEN [conns EXCEPT ![peer].bytes_sent = @ + size]
      ELSE conns

\* The bound of the model: the bytes counted in the table plus the bytes
\* waiting in the receive buffers are at most MaxBytes.
RECURSIVE SumSizes(_)
SumSizes(pkts) == IF pkts = <<>> THEN 0 ELSE Head(pkts).size + SumSizes(Tail(pkts))

RECURSIVE SumCounters(_, _)
SumCounters(conns, n) ==
    IF n = 0 THEN 0
    ELSE SumCounters(conns, n - 1)
         + (IF HasEntry(conns, n) THEN conns[n].bytes_sent + conns[n].bytes_received
                                  ELSE 0)

TrafficInBound(conns, stubq, sdkq) ==
    SumCounters(conns, NumPeers) + SumSizes(stubq) + SumSizes(sdkq) <= MaxBytes

\* The arguments a caller passes: a null data pointer is tried with one size,
\* and the transport's answer and the delivery options are only drawn when
\* the call reaches the transport.
SendSizes(data) == IF data THEN 0..(MaxPacketCfg + 1) ELSE {1}
SendKinds == {<<0, "UnreliableUnordered">>, <<1, "ReliableOrdered">>}
SendOptions(reaches) ==
    IF reaches THEN {<<k[1], k[2], tok>> : k \in SendKinds, tok \in BOOLEAN}
               ELSE {<<0, "UnreliableUnordered", TRUE>>}

send_packet ==
    \E peer \in PeerArgs, data \in BOOLEAN :
      \E size \in SendSizes(data) :
        \E opt \in SendOptions(send_reaches_transport(peer, data, size)) :
          /\ m_connections' = send_table(m_connections, peer, data, size, opt[3])
          /\ TrafficInBound(m_connections', m_incoming_packets, sdk_packets)
          /\ lastOp' = Op("send_packet", peer, IF data THEN size ELSE 0,
                          send_result(peer, data, size, opt[3]),
                          StatusOf(m_connections, peer), FALSE,
                          send_calls(peer, data, size, opt[1], opt[2], opt[3]), <<>>)
          /\ UNCHANGED <<stub, authVars, callbacks_registered, m_initialized, m_config,
                         queueVars>>

(* ---------------------------- connect_to_peer -------------------------- *)
\* connect_table whose stub build waits for a handshake like the SDK's.
connect_table_stub_connecting(peer, tok) ==
    IF ~m_initialized \/ peer = Nil THEN m_connections
    ELSE [m_connections EXCEPT ![peer] = PeerConnection(peer, "", "Connecting", 0)]

connect_table(peer, tok) ==
    IF ~m_initialized \/ peer = Nil THEN m_connections
    ELSE IF stub
      THEN [m_connections EXCEPT
              ![peer] = PeerConnection(peer, "StubPeer", "Connected", StubPingMs)]
      ELSE [send_table(m_connections, peer, TRUE, HelloSize, tok) EXCEPT
              ![peer] = PeerConnection(peer, "", "Connecting", 0)]

\* connect_calls with the hello sent under send_packet's default arguments.
connect_calls_default_reliability(peer, tok) ==
    IF ~m_initialized \/ peer = Nil \/ stub THEN <<>>
    ELSE send_calls(peer, TRUE, HelloSize, HelloChannel, "UnreliableUnordered", tok)

connect_calls(peer, tok) ==
    IF ~m_initialized \/ peer = Nil \/ stub THEN <<>>
    ELSE send_calls(peer, TRUE, HelloSize, HelloChannel, "ReliableOrdered", tok)

connect_events(peer, on_connection_established) ==
    IF m_initialized /\ peer # Nil /\ stub /\ on_connection_established
      THEN <<ConnEvent("on_connection_established", peer, "Connected")>>
      ELSE <<>>

connect_to_peer ==
    \E peer \in PeerArgs, on_connection_established \in BOOLEAN :
      \E tok \in IF connect_calls(peer, TRUE) = <<>> THEN {TRUE} ELSE BOOLEAN :
        /\ m_connections' = connect_table(peer, tok)
        /\ lastOp' = Op("connect_to_peer", peer, 0, TRUE, StatusOf(m_connections, peer),
                        on_connection_established, connect_calls(peer, tok),
                        connect_events(peer, on_connection_established))
        /\ UNCHANGED <<stub, authVars, callbacks_registered, m_initialized, m_config,
                       queueVars>>

(* -------------------------- disconnect_from_peer ----------------------- *)
\* disconnect_acts without the test of m_initialized.
disconnect_acts_uninitialized(peer) == peer # Nil /\ (stub \/ platform_handle)

\* TRUE when disconnect_from_peer gets past its early returns.
disconnect_acts(peer) ==
    m_initialized /\ peer # Nil /\ (stub \/ platform_handle)

disconnect_table(conns, peer) ==
    IF disconnect_acts(peer) THEN [conns EXCEPT ![peer] = NoEntry] ELSE conns

disconnect_calls(peer) ==
    IF disconnect_acts(peer) /\ ~stub
      THEN <<TransportCall("EOS_P2P_CloseConnection", peer, 0, 0, "none", TRUE)>>
      ELSE <<>>

disconnect_events(peer, on_connection_closed) ==
    IF disconnect_acts(peer) /\ stub /\ on_connection_closed
      THEN <<ConnEvent("on_connection_closed", peer, "Disconnected")>>
      ELSE <<>>

disconnect_from_peer ==
    \E peer \in PeerArgs, on_connection_closed \in BOOLEAN :
        /\ m_connections' = disconnect_table(m_connections, peer)
        /\ lastOp' = Op("disconnect_from_peer", peer, 0, TRUE,
                        StatusOf(m_connections, peer), on_connection_closed,
                        disconnect_calls(peer),
                        disconnect_events(peer, on_connection_closed))
        /\ UNCHANGED <<stub, authVars, callbacks_registered, m_initialized, m_config,
                       queueVars>>

(* ------------------------------ disconnect_all ------------------------- *)
\* The orders in which a loop over an unordered_map may visit the set S.
Orders(S) ==
    {ord \in [1..Cardinality(S) -> S] : \A i, j \in 1..Cardinality(S) :
                                            ord[i] = ord[j] => i = j}

EntryPeers(conns) == {p \in Peers : HasEntry(conns, p)}

disconnect_all_table(conns) ==
    [p \in Peers |-> IF HasEntry(conns, p) THEN disconnect_table(conns, p)[p]
                                           ELSE conns[p]]

RECURSIVE disconnect_all_calls(_)
disconnect_all_calls(ord) ==
    IF ord = <<>> THEN <<>>
    ELSE disconnect_calls(Head(ord)) \o disconnect_all_calls(Tail(ord))

RECURSIVE disconnect_all_events(_, _)
disconnect_all_events(ord, on_connection_closed) ==
    IF ord = <<>> THEN <<>>
    ELSE disconnect_events(Head(ord), on_connection_closed)
         \o disconnect_all_events(Tail(ord), on_connection_closed)

disconnect_all ==
    \E ord \in Orders(EntryPeers(m_connections)), on_connection_closed \in BOOLEAN :
        /\ m_connections' = disconnect_all_table(m_connections)
        /\ lastOp' = Op("disconnect_all", Nil, Len(ord), TRUE, "absent",
                        on_connection_closed, disconnect_all_calls(ord),
                        disconnect_all_events(ord, on_connection_closed))
        /\ UNCHANGED <<stub, authVars, callbacks_registered, m_initialized, m_config,
                       queueVars>>

(* -------------------------------- shutdown ----------------------------- *)
\* The SDK build disconnects every peer first; unregister_callbacks has an
\* empty body, so the SDK keeps the lambdas.
\* shutdown_table whose stub build forgets m_connections.clear().
shutdown_table_stub_keeps_entries ==
    IF m_initialized /\ ~stub THEN [p \in Peers |-> NoEntry] ELSE m_connections

shutdown_table ==
    IF m_initialized THEN [p \in Peers |-> NoEntry] ELSE m_connections

shutdown_calls(ord) ==
    IF m_initialized /\ ~stub THEN disconnect_all_calls(ord) ELSE <<>>

shutdown_events(ord, on_connection_closed) ==
    IF m_initialized /\ ~stub THEN disconnect_all_events(ord, on_connection_closed)
                              ELSE <<>>

\* shutdown that also empties the queue of received packets.
shutdown_clearing_queue ==
    \E ord \in Orders(EntryPeers(m_connections)), on_connection_closed \in BOOLEAN :
        /\ m_connections' = shutdown_table
        /\ m_initialized' = FALSE
        /\ m_incoming_packets' = IF m_initialized THEN <<>> ELSE m_incoming_packets
        /\ sdk_packets' = IF m_initialized THEN <<>> ELSE sdk_packets
        /\ lastOp' = Op("shutdown", Nil, Len(ord), TRUE,
                        IF m_initialized THEN "initialized" ELSE "absent",
                        on_connection_closed, shutdown_calls(ord),
                        shutdown_events(ord, on_connection_closed))
        /\ UNCHANGED <<stub, authVars, callbacks_registered, m_config, inflight,
                       remote_next>>

shutdown ==
    \E ord \in Orders(EntryPeers(m_connections)), on_connection_closed \in BOOLEAN :
        /\ m_connections' = shutdown_table
        /\ m_initialized' = FALSE
        /\ lastOp' = Op("shutdown", Nil, Len(ord), TRUE,
                        IF m_initialized THEN "initialized" ELSE "absent",
                        on_connection_closed, shutdown_calls(ord),
                        shutdown_events(ord, on_connection_closed))
        /\ UNCHANGED <<stub, authVars, callbacks_registered, m_config, queueVars>>

(* ---------------------------- accept_connections ----------------------- *)
accept_calls(peer) ==
    IF m_initialized /\ ~stub /\ platform_handle
      THEN <<TransportCall("EOS_P2P_AcceptConnection", peer, 0, 0, "none", TRUE)>>
      ELSE <<>>

accept_connections ==
    \E peer \in PeerArgs :
        /\ lastOp' = Op("accept_connections", peer, 0, TRUE,
                        StatusOf(m_connections, peer), FALSE, accept_calls(peer), <<>>)
        /\ UNCHANGED <<stub, authVars, callbacks_registered, m_initialized, m_config,
                       m_connections, queueVars>>

(* ----------------------------- broadcast_packet ------------------------ *)
\* broadcast_peers without the test of the status.
broadcast_peers_any_status(conns) == {p \in Peers : HasEntry(conns, p)}

\* The peers broadcast_packet collects under the lock.
broadcast_peers(conns) == {p \in Peers : StatusOf(conns, p) = "Connected"}

broadcast_table(conns, data, size, tok) ==
    [p \in Peers |-> IF p \in broadcast_peers(conns)
                       THEN send_table(conns, p, data, size, tok[p])[p]
                       ELSE conns[p]]

\* broadcast_calls that leaves the loop after the first peer.
broadcast_calls_first_only(ord, data, size, channel, rel, tok) ==
    IF ord = <<>> THEN <<>>
    ELSE send_calls(Head(ord), data, size, channel, rel, tok[Head(ord)])

RECURSIVE broadcast_calls(_, _, _, _, _, _)
broadcast_calls(ord, data, size, channel, rel, tok) ==
    IF ord = <<>> THEN <<>>
    ELSE send_calls(Head(ord), data, size, channel, rel, tok[Head(ord)])
         \o broadcast_calls(Tail(ord), data, size, channel, rel, tok)

\* One answer of the transport for each peer the broadcast reaches.
BroadcastAnswers(targets, reaches) ==
    {tok \in [Peers -> BOOLEAN] : \A p \in Peers : (p \notin targets \/ ~reaches) => tok[p]}

broadcast_packet ==
    \E data \in BOOLEAN :
      \E size \in SendSizes(data), ord \in Orders(broadcast_peers(m_connections)) :
        LET reaches == ord # <<>> /\ send_reaches_transport(ord[1], data, size)
        IN \E opt \in SendOptions(reaches),
              tok \in BroadcastAnswers(broadcast_peers(m_connections), reaches) :
          /\ reaches => opt[3]
          /\ m_connections' = broadcast_table(m_connections, data, size, tok)
          /\ TrafficInBound(m_connections', m_incoming_packets, sdk_packets)
          /\ lastOp' = Op("broadcast_packet", Nil, IF data THEN size ELSE 0, TRUE,
                          "absent", FALSE,
                          broadcast_calls(ord, data, size, opt[1], opt[2], tok), <<>>)
          /\ UNCHANGED <<stub, authVars, callbacks_registered, m_initialized, m_config,
                         queueVars>>

(* ------------------------------ receive_packets ------------------------ *)
Min(a, b) == IF a < b THEN a ELSE b

\* The buffer receive_packets reads: the stub build's queue, or what
\* EOS_P2P_ReceivePacket hands over, front first.
inbound == IF stub THEN m_incoming_packets ELSE sdk_packets

\* receive_count with the loop test packets_received <= max_packets.
receive_count_inclusive(max_packets) ==
    IF ~m_initialized \/ (~stub /\ ~platform_handle) THEN 0
    ELSE Min(Len(inbound), max_packets + 1)

\* How many packets one call processes.
receive_count(max_packets) ==
    IF ~m_initialized \/ (~stub /\ ~platform_handle) THEN 0
    ELSE Min(Len(inbound), max_packets)

\* receive_table that also marks the sender of a packet as Connected.
RECURSIVE receive_table_promoting(_, _)
receive_table_promoting(conns, pkts) ==
    IF pkts = <<>> THEN conns
    ELSE receive_table_promoting(
            IF HasEntry(conns, Head(pkts).sender)
              THEN [conns EXCEPT ![Head(pkts).sender].bytes_received = @ + Head(pkts).size,
                                 ![Head(pkts).sender].status = "Connected"]
              ELSE conns,
            Tail(pkts))

\* "Update stats" of the SDK path, one packet after the other.
RECURSIVE receive_table(_, _)
receive_table(conns, pkts) ==
    IF pkts = <<>> THEN conns
    ELSE receive_table(
            IF HasEntry(conns, Head(pkts).sender)
              THEN [conns EXCEPT ![Head(pkts).sender].bytes_received = @ + Head(pkts).size]
              ELSE conns,
            Tail(pkts))

\* receive_events that serves the newest packet first.
receive_events_newest_first(pkts, on_packet_received) ==
    IF on_packet_received
      THEN [i \in 1..Len(pkts) |-> PacketEvent(pkts[Len(pkts) + 1 - i])]
      ELSE <<>>

\* receive_events that skips the packets of peers without an entry.
receive_events_known_only(pkts, on_packet_received) ==
    IF on_packet_received
      THEN LET known(pkt) == HasEntry(m_connections, pkt.sender)
               kept == SelectSeq(pkts, known)
           IN  [i \in 1..Len(kept) |-> PacketEvent(kept[i])]
      ELSE <<>>

\* The handler invocations of one call, in order.
receive_events(pkts, on_packet_received) ==
    IF on_packet_received THEN [i \in 1..Len(pkts) |-> PacketEvent(pkts[i])] ELSE <<>>

\* receive_packets that pops a packet only when a handler takes it.
receive_packets_keeping_unhandled ==
    \E max_packets \in 0..(MaxBytes + 1), on_packet_received \in BOOLEAN :
      LET k == receive_count(max_packets)
          taken == SubSeq(inbound, 1, k)
          rest == IF on_packet_received THEN SubSeq(inbound, k + 1, Len(inbound))
                                        ELSE inbound
      IN  /\ m_incoming_packets' = IF stub THEN rest ELSE m_incoming_packets
          /\ sdk_packets' = IF stub THEN sdk_packets ELSE rest
          /\ m_connections' = IF stub THEN m_connections
                                      ELSE receive_table(m_connections, taken)
          /\ lastOp' = Op("receive_packets", Nil, max_packets, k, "absent",
                          on_packet_received, <<>>,
                          receive_events(taken, on_packet_received))
          /\ UNCHANGED <<stub, authVars, callbacks_registered, m_initialized, m_config,
                         inflight, remote_next>>

receive_packets ==
    \E max_packets \in 0..(MaxBytes + 1), on_packet_received \in BOOLEAN :
      LET k == receive_count(max_packets)
          taken == SubSeq(inbound, 1, k)
          rest == SubSeq(inbound, k + 1, Len(inbound))
      IN  /\ m_incoming_packets' = IF stub THEN rest ELSE m_incoming_packets
          /\ sdk_packets' = IF stub THEN sdk_packets ELSE rest
          /\ m_connections' = IF stub THEN m_connections
                                      ELSE receive_table(m_connections, taken)
          /\ lastOp' = Op("receive_packets", Nil, max_packets, k, "absent",
                          on_packet_received, <<>>,
                          receive_events(taken, on_packet_received))
          /\ UNCHANGED <<stub, authVars, callbacks_registered, m_initialized, m_config,
                         inflight, remote_next>>

(* ------------------------- notification handlers ----------------------- *)
\* The SDK runs a registered lambda; each lambda calls one handle_* method.
sdk_notifies == ~stub /\ callbacks_registered /\ platform_handle

handle_connection_request ==
    \E peer \in Peers :
        /\ sdk_notifies
        /\ lastOp' = Op("handle_connection_request", peer, 0, TRUE,
                        StatusOf(m_connections, peer), FALSE, accept_calls(peer), <<>>)
        /\ UNCHANGED <<stub, authVars, callbacks_registered, m_initialized, m_config,
                       m_connections, queueVars>>

\* established_table that only updates an entry that exists.
established_table_known_only(conns, peer) ==
    IF HasEntry(conns, peer)
      THEN [conns EXCEPT ![peer].status = "Connected"]
      ELSE conns

established_table(conns, peer) ==
    IF HasEntry(conns, peer)
      THEN [conns EXCEPT ![peer].status = "Connected"]
      ELSE [conns EXCEPT ![peer] = PeerConnection(peer, "", "Connected", 0)]

established_events(peer, on_connection_established) ==
    IF on_connection_established
      THEN <<ConnEvent("on_connection_established", peer, "Connected")>>
      ELSE <<>>

handle_connection_established ==
    \E peer \in Peers, on_connection_established \in BOOLEAN :
        /\ sdk_notifies
        /\ m_connections' = established_table(m_connections, peer)
        /\ lastOp' = Op("handle_connection_established", peer, 0, TRUE,
                        StatusOf(m_connections, peer), on_connection_established, <<>>,
                        established_events(peer, on_connection_established))
        /\ UNCHANGED <<stub, authVars, callbacks_registered, m_initialized, m_config,
                       queueVars>>

\* closed_table that keeps the entry and marks it Disconnected.
closed_table_marking(conns, peer) ==
    IF HasEntry(conns, peer) THEN [conns EXCEPT ![peer].status = "Disconnected"]
                             ELSE conns

closed_table(conns, peer) == [conns EXCEPT ![peer] = NoEntry]

closed_events(peer, on_connection_closed) ==
    IF on_connection_closed
      THEN <<ConnEvent("on_connection_closed", peer, "Disconnected")>>
      ELSE <<>>

handle_connection_closed ==
    \E peer \in Peers, on_connection_closed \in BOOLEAN :
        /\ sdk_notifies
        /\ m_connections' = closed_table(m_connections, peer)
        /\ lastOp' = Op("handle_connection_closed", peer, 0, TRUE,
                        StatusOf(m_connections, peer), on_connection_closed, <<>>,
                        closed_events(peer, on_connection_closed))
        /\ UNCHANGED <<stub, authVars, callbacks_registered, m_initialized, m_config,
                       queueVars>>

(* ------------------------- arrival of datagrams ------------------------ *)
\* The transport's background activity puts a datagram from a peer in the
\* SDK's receive buffer.
transport_receive ==
    \E p \in Peers, c \in Channels, n \in 1..MaxPacketCfg :
        /\ ~stub /\ platform_handle /\ m_initialized
        /\ sdk_packets' = Append(sdk_packets, IncomingPacket(p, c, n, 0))
        /\ TrafficInBound(m_connections, m_incoming_packets, sdk_packets')
        /\ lastOp' = EnvOp("transport_receive", Nil)
        /\ UNCHANGED <<stub, authVars, callbacks_registered, m_initialized, m_config,
                       m_connections, m_incoming_packets, inflight, remote_next>>

\* The stub build's queue of test packets gets a packet.
enqueue_packet ==
    \E p \in Peers, c \in Channels, n \in 1..MaxPacketCfg :
        /\ stub /\ m_initialized
        /\ m_incoming_packets' = Append(m_incoming_packets, IncomingPacket(p, c, n, 0))
        /\ TrafficInBound(m_connections, m_incoming_packets', sdk_packets)
        /\ lastOp' = EnvOp("enqueue_packet", Nil)
        /\ UNCHANGED <<stub, authVars, callbacks_registered, m_initialized, m_config,
                       m_connections, sdk_packets, inflight, remote_next>>

(* ------------------- datagrams of a remote sender ---------------------- *)
\* A remote peer sends its next ReliableOrdered datagram; seq is its place
\* in the peer's sending order.
remote_sent_total == SumSizes([i \in 1..NumPeers |-> [size |-> remote_next[i]]])

remote_send ==
    \E p \in Peers, c \in Channels :
        /\ m_initialized
        /\ remote_sent_total < MaxOrdered
        /\ remote_next' = [remote_next EXCEPT ![p] = @ + 1]
        /\ inflight' = inflight \cup {IncomingPacket(p, c, HelloSize, remote_next[p] + 1)}
        /\ lastOp' = EnvOp("remote_send", Nil)
        /\ UNCHANGED <<stub, authVars, callbacks_registered, m_initialized, m_config,
                       m_connections, m_incoming_packets, sdk_packets>>

\* The transport hands one of the datagrams in flight to the receive buffer,
\* in whatever order its own buffering produces.
hand_over ==
    \E pkt \in inflight :
        /\ inflight' = inflight \ {pkt}
        /\ m_incoming_packets' = IF stub THEN Append(m_incoming_packets, pkt)
                                         ELSE m_incoming_packets
        /\ sdk_packets' = IF stub THEN sdk_packets ELSE Append(sdk_packets, pkt)
        /\ lastOp' = EnvOp("hand_over", Nil)
        /\ UNCHANGED <<stub, authVars, callbacks_registered, m_initialized, m_config,
                       m_connections, remote_next>>

(* --------------------------- specifications ---------------------------- *)
\* Every operation, every notification and every arrival, in any order.  The
\* consumer logs out and releases the platform only while the manager is
\* shut down, the order of eos_testing::shutdown(); the history variables
\* are not kept.
Next ==
    \/ login_device_id /\ UNCHANGED historyVars
    \/ logout /\ ~m_initialized /\ UNCHANGED historyVars
    \/ platform_initialize /\ UNCHANGED historyVars
    \/ platform_shutdown /\ ~m_initialized /\ UNCHANGED historyVars
    \/ initialize /\ UNCHANGED historyVars
    \/ shutdown /\ UNCHANGED historyVars
    \/ accept_connections /\ UNCHANGED historyVars
    \/ connect_to_peer /\ UNCHANGED historyVars
    \/ disconnect_from_peer /\ UNCHANGED historyVars
    \/ disconnect_all /\ UNCHANGED historyVars
    \/ send_packet /\ UNCHANGED historyVars
    \/ broadcast_packet /\ UNCHANGED historyVars
    \/ receive_packets /\ UNCHANGED historyVars
    \/ handle_connection_request /\ UNCHANGED historyVars
    \/ handle_connection_established /\ UNCHANGED historyVars
    \/ handle_connection_closed /\ UNCHANGED historyVars
    \/ transport_receive /\ UNCHANGED historyVars
    \/ enqueue_packet /\ UNCHANGED historyVars

Spec == Init /\ [][Next]_vars

\* The state right after login, Platform::initialize and initialize(config).
InitReady ==
    /\ stub \in BOOLEAN
    /\ m_logged_in = TRUE
    /\ platform_handle = ~stub
    /\ callbacks_registered = ~stub
    /\ m_initialized = TRUE
    /\ m_config \in P2PConfig
    /\ m_connections = [p \in Peers |-> NoEntry]
    /\ m_incoming_packets = <<>>
    /\ sdk_packets = <<>>
    /\ inflight = {}
    /\ remote_next = [p \in Peers |-> 0]
    /\ lastOp = Op("initialize", Nil, m_config.max_packet_size, TRUE, "absent", FALSE,
                   <<>>, <<>>)
    /\ established_fired = [p \in Peers |-> -1]
    /\ accept_filter = {}
    /\ sdk_accepted = {}
    /\ dropped = {}
    /\ stale = {}
    /\ handed = {}
    /\ stack = [t \in Threads |-> <<>>]
    /\ mutex = [l \in Locks |-> Free]

\* established_fired[p]: -1 until connect_to_peer(p) is called on the entry's
\* behalf, then the number of on_connection_established invocations for p;
\* back to -1 when p's entry is removed.
RECURSIVE CountEstablished(_, _)
CountEstablished(events, p) ==
    IF events = <<>> THEN 0
    ELSE (IF Head(events).h = "on_connection_established" /\ Head(events).peer = p
            THEN 1 ELSE 0) + CountEstablished(Tail(events), p)

FiredAfter(fired, conns, op) ==
    [p \in Peers |->
        IF ~HasEntry(conns, p) THEN -1
        ELSE LET base == IF op.op = "connect_to_peer" /\ op.peer = p /\ fired[p] = -1
                           THEN 0 ELSE fired[p]
             IN  IF base = -1 THEN -1 ELSE base + CountEstablished(op.events, p)]

TrackFired ==
    /\ established_fired' = FiredAfter(established_fired, m_connections', lastOp')
    /\ \A p \in Peers : established_fired'[p] <= MaxFired
    /\ UNCHANGED <<accept_filter, sdk_accepted, dropped, stale, handed, threadVars>>

\* The handshake: the consumer keeps its handlers registered, connects,
\* drains and disconnects while the transport notifies and delivers.
NextHandshake ==
    \/ connect_to_peer /\ lastOp'.handler /\ TrackFired
    \/ disconnect_from_peer /\ lastOp'.handler /\ TrackFired
    \/ receive_packets /\ lastOp'.handler /\ TrackFired
    \/ handle_connection_established /\ lastOp'.handler /\ TrackFired
    \/ handle_connection_closed /\ lastOp'.handler /\ TrackFired
    \/ transport_receive /\ TrackFired
    \/ enqueue_packet /\ TrackFired

SpecHandshake == InitReady /\ [][NextHandshake]_vars

\* The peers named in the EOS_P2P_AcceptConnection calls of a step.
AcceptedBy(calls) ==
    {calls[i].peer : i \in {j \in 1..Len(calls) : calls[j].fn = "EOS_P2P_AcceptConnection"}}

\* Incoming connections: the SDK establishes a connection with a remote peer
\* only once EOS_P2P_AcceptConnection named that peer (or all peers).
NextAccept ==
    \/ /\ accept_connections
       /\ accept_filter' = accept_filter \cup {lastOp'.peer}
       /\ sdk_accepted' = sdk_accepted \cup AcceptedBy(lastOp'.calls)
       /\ UNCHANGED <<established_fired, dropped, stale, handed, threadVars>>
    \/ /\ handle_connection_request
       /\ sdk_accepted' = sdk_accepted \cup AcceptedBy(lastOp'.calls)
       /\ UNCHANGED <<established_fired, accept_filter, dropped, stale, handed, threadVars>>
    \/ /\ handle_connection_established
       /\ lastOp'.peer \in sdk_accepted \/ Nil \in sdk_accepted
       /\ UNCHANGED historyVars
    \/ /\ handle_connection_closed
       /\ HasEntry(m_connections, lastOp'.peer)
       /\ UNCHANGED historyVars

SpecAccept == InitReady /\ [][NextAccept]_vars

\* Ordered delivery: remote peers send, the transport hands over in any
\* order, the consumer drains.
NextOrder ==
    \/ remote_send /\ UNCHANGED historyVars
    \/ hand_over /\ UNCHANGED historyVars
    \/ receive_packets /\ UNCHANGED historyVars

SpecOrder == InitReady /\ [][NextOrder]_vars

\* The life cycle: the consumer logs in and out, brings the platform up and
\* down and initializes and shuts the manager down in any order.
NextLifecycle ==
    \/ login_device_id /\ UNCHANGED historyVars
    \/ logout /\ UNCHANGED historyVars
    \/ platform_initialize /\ UNCHANGED historyVars
    \/ platform_shutdown /\ UNCHANGED historyVars
    \/ initialize /\ UNCHANGED historyVars
    \/ shutdown /\ UNCHANGED historyVars
    \/ connect_to_peer /\ UNCHANGED historyVars

SpecLifecycle == Init /\ [][NextLifecycle]_vars

\* dropped collects the packets receive_packets removed while the consumer
\* had no packet handler set.
TrackDropped ==
    /\ dropped' = dropped \cup
          (IF lastOp'.handler THEN {} ELSE Range(SubSeq(inbound, 1, lastOp'.ok)))
    /\ UNCHANGED <<established_fired, accept_filter, sdk_accepted, stale, handed, threadVars>>

\* Draining with and without a handler: remote peers send, the transport
\* hands over, the consumer drains.
NextDiscard ==
    \/ remote_send /\ UNCHANGED historyVars
    \/ hand_over /\ UNCHANGED historyVars
    \/ receive_packets /\ TrackDropped

SpecDiscard == InitReady /\ [][NextDiscard]_vars

(* ------------------- threads, locks and handler calls ------------------ *)
\* The same methods step by step: a frame is one activation of a method or
\* of a consumer handler.  pc is the place in the method; h says whether the
\* callback field the method reads is set; pkt is the packet a drain has in
\* hand; held is, for a handler's frame, the locks its thread held when the
\* handler was called.
NoPacket == [sender |-> Nil]
HandlerNames == {"on_packet_received", "on_connection_established", "on_connection_closed"}
ConsumerMethods == {"receive_packets", "connect_to_peer", "disconnect_from_peer", "send_packet"}
ReentrantMethods == {"send_packet", "disconnect_from_peer"}
NotificationMethods == {"handle_connection_established", "handle_connection_closed"}
QueryMethods == {"get_peer_connection", "get_all_connections"}

\* The peers the threads deal with.
ThreadPeers == {1}

Frame(fn, pc, peer, n, h, pkt, held) ==
    [fn |-> fn, pc |-> pc, peer |-> peer, n |-> n, h |-> h, pkt |-> pkt, held |-> held]

Top(t) == stack[t][Len(stack[t])]
Push(stk, t, f) == [stk EXCEPT ![t] = Append(@, f)]
Pop(stk, t) == [stk EXCEPT ![t] = SubSeq(@, 1, Len(@) - 1)]
SetTop(stk, t, f) == [stk EXCEPT ![t] = Append(SubSeq(@, 1, Len(@) - 1), f)]
HeldBy(t) == {l \in Locks : mutex[l] = t}
Release(l) == [mutex EXCEPT ![l] = Free]

\* scoped_lock with one mutex for the table and the packet queue.
scoped_lock_single_mutex(fn) == "m_connections_mutex"

\* The mutex a method's lock_guard names: the stub build's receive_packets
\* guards the packet queue, every other critical section guards the table.
scoped_lock(fn) ==
    IF fn = "receive_packets" /\ stub THEN "m_packets_mutex" ELSE "m_connections_mutex"

\* The handler a method invokes.
HandlerOf(fn) ==
    CASE fn = "receive_packets" -> "on_packet_received"
      [] fn \in {"connect_to_peer", "handle_connection_established"}
            -> "on_connection_established"
      [] OTHER -> "on_connection_closed"

\* Where a method starts, after its argument checks.
FirstPc(fn) ==
    CASE fn = "receive_packets" -> IF stub THEN "lock" ELSE "loop"
      [] fn \in {"send_packet", "disconnect_from_peer"} -> IF stub THEN "lock" ELSE "transport"
      [] fn = "connect_to_peer" -> IF stub THEN "lock" ELSE "hello"
      [] fn = "shutdown" -> IF stub THEN "clear" ELSE "disconnect_all"
      [] OTHER -> "lock"

\* The bytes of the sends that are under way; a new send starts only while
\* the counters have room for it.
RECURSIVE PendingSends(_)
PendingSends(stk) ==
    IF stk = <<>> THEN 0
    ELSE (IF Head(stk).fn = "send_packet" THEN HelloSize ELSE 0) + PendingSends(Tail(stk))

RoomToSend ==
    SumCounters(m_connections, NumPeers) + SumSizes(m_incoming_packets)
      + SumSizes(sdk_packets) + PendingSends(stack["consumer"])
      + PendingSends(stack["notifier"]) + HelloSize <= MaxBytes

outsideThreads == <<stub, authVars, callbacks_registered, m_initialized, m_config,
                    inflight, remote_next, lastOp, established_fired, accept_filter,
                    sdk_accepted, dropped, stale>>

\* A public method is entered: by the consumer's thread from outside, or
\* from inside a handler by the thread that runs the handler.
call_method ==
    \E t \in Threads, fn \in ConsumerMethods :
      \E peer \in IF fn = "receive_packets" THEN {Nil} ELSE ThreadPeers,
         n \in IF fn = "receive_packets" THEN 1..MaxDrain ELSE {0},
         h \in IF fn = "send_packet" THEN {FALSE} ELSE {TRUE} :
        /\ m_initialized
        /\ IF stack[t] = <<>>
             THEN t = "consumer"
             ELSE /\ Top(t).fn \in HandlerNames
                  /\ Len(stack[t]) < MaxDepth
                  /\ fn \in ReentrantMethods
        /\ (fn = "send_packet" \/ (fn = "connect_to_peer" /\ ~stub)) => RoomToSend
        /\ stack' = Push(stack, t, Frame(fn, FirstPc(fn), peer, n, h, NoPacket, {}))
        /\ UNCHANGED <<outsideThreads, m_connections, m_incoming_packets, sdk_packets, mutex>>

\* The SDK runs one of the lambdas of register_callbacks on its own thread.
sdk_notification ==
    \E fn \in NotificationMethods, peer \in ThreadPeers, h \in {TRUE} :
        /\ sdk_notifies
        /\ stack["notifier"] = <<>>
        /\ stack' = Push(stack, "notifier", Frame(fn, "lock", peer, 0, h, NoPacket, {}))
        /\ UNCHANGED <<outsideThreads, m_connections, m_incoming_packets, sdk_packets, mutex>>

\* std::lock_guard's constructor: the thread waits until the mutex is free.
acquire ==
    \E t \in Threads :
        /\ stack[t] # <<>>
        /\ Top(t).pc = "lock"
        /\ mutex[scoped_lock(Top(t).fn)] = Free
        /\ mutex' = [mutex EXCEPT ![scoped_lock(Top(t).fn)] = t]
        /\ stack' = SetTop(stack, t, [Top(t) EXCEPT !.pc = "locked"])
        /\ UNCHANGED <<outsideThreads, m_connections, m_incoming_packets, sdk_packets>>

\* The table after the critical section of frame f.
critical_table(f) ==
    CASE f.fn = "send_packet" ->
            IF HasEntry(m_connections, f.peer)
              THEN [m_connections EXCEPT ![f.peer].bytes_sent = @ + HelloSize]
              ELSE m_connections
      [] f.fn = "disconnect_from_peer" -> [m_connections EXCEPT ![f.peer] = NoEntry]
      [] f.fn = "connect_to_peer" ->
            [m_connections EXCEPT ![f.peer] =
                IF stub THEN PeerConnection(f.peer, "StubPeer", "Connected", StubPingMs)
                        ELSE PeerConnection(f.peer, "", "Connecting", 0)]
      [] f.fn = "handle_connection_established" -> established_table(m_connections, f.peer)
      [] f.fn = "handle_connection_closed" -> closed_table(m_connections, f.peer)
      [] f.fn = "receive_packets" ->
            IF stub THEN m_connections ELSE receive_table(m_connections, <<f.pkt>>)
      [] f.fn \in QueryMethods \cup {"disconnect_all"} -> m_connections

\* The peer disconnect_all copies out of the table in its critical section
\* (the threads deal with one peer); any other frame keeps its peer.
critical_peer(f) ==
    IF f.fn = "disconnect_all"
      THEN IF \E p \in ThreadPeers : HasEntry(m_connections, p)
             THEN CHOOSE p \in ThreadPeers : HasEntry(m_connections, p)
             ELSE Nil
      ELSE f.peer

\* Where a method goes on after its critical section; "return" leaves it.
after_critical(fn) ==
    CASE fn \in {"send_packet"} \cup QueryMethods -> "return"
      [] fn = "disconnect_all" -> "each"
      [] fn = "receive_packets" -> IF stub THEN "loop" ELSE "deliver"
      [] fn \in {"connect_to_peer", "disconnect_from_peer"} ->
            IF stub THEN "notify" ELSE "return"
      [] OTHER -> "notify"

\* critical with the lock_guard of disconnect_all at function scope.
critical_unscoped_disconnect_all ==
    \E t \in Threads :
        /\ stack[t] # <<>>
        /\ Top(t).pc = "locked"
        /\ m_connections' = critical_table(Top(t))
        /\ mutex' = IF (Top(t).fn = "receive_packets" /\ stub) \/ Top(t).fn = "disconnect_all"
                      THEN mutex ELSE Release(scoped_lock(Top(t).fn))
        /\ stack' = IF after_critical(Top(t).fn) = "return"
                      THEN Pop(stack, t)
                      ELSE SetTop(stack, t, [Top(t) EXCEPT !.pc = after_critical(Top(t).fn),
                                                           !.peer = critical_peer(Top(t))])
        /\ UNCHANGED <<outsideThreads, m_incoming_packets, sdk_packets>>

\* The critical section and the end of its scope; the lock_guard of the
\* stub build's receive_packets lives until the method returns.
critical ==
    \E t \in Threads :
        /\ stack[t] # <<>>
        /\ Top(t).pc = "locked"
        /\ m_connections' = critical_table(Top(t))
        /\ mutex' = IF Top(t).fn = "receive_packets" /\ stub
                      THEN mutex ELSE Release(scoped_lock(Top(t).fn))
        /\ stack' = IF after_critical(Top(t).fn) = "return"
                      THEN Pop(stack, t)
                      ELSE SetTop(stack, t, [Top(t) EXCEPT !.pc = after_critical(Top(t).fn),
                                                           !.peer = critical_peer(Top(t))])
        /\ UNCHANGED <<outsideThreads, m_incoming_packets, sdk_packets>>

\* The SDK build's calls on the transport ahead of the critical section:
\* EOS_P2P_SendPacket, whose failure ends send_packet, and
\* EOS_P2P_CloseConnection.
transport_call ==
    \E t \in Threads, tok \in BOOLEAN :
        /\ stack[t] # <<>>
        /\ Top(t).pc = "transport"
        /\ Top(t).fn = "disconnect_from_peer" => tok
        /\ stack' = IF tok THEN SetTop(stack, t, [Top(t) EXCEPT !.pc = "lock"])
                           ELSE Pop(stack, t)
        /\ UNCHANGED <<outsideThreads, m_connections, m_incoming_packets, sdk_packets, mutex>>

\* The SDK build's connect_to_peer calls send_packet with the hello.
hello ==
    \E t \in Threads :
        /\ stack[t] # <<>>
        /\ Top(t).pc = "hello"
        /\ stack' = Push(SetTop(stack, t, [Top(t) EXCEPT !.pc = "lock"]), t,
                         Frame("send_packet", FirstPc("send_packet"), Top(t).peer, 0,
                               FALSE, NoPacket, {}))
        /\ UNCHANGED <<outsideThreads, m_connections, m_incoming_packets, sdk_packets, mutex>>

\* loop that reads front() and leaves out pop().
loop_keeping_front ==
    \E t \in Threads :
        /\ stack[t] # <<>>
        /\ Top(t).fn = "receive_packets" /\ Top(t).pc = "loop"
        /\ IF inbound = <<>> \/ Top(t).n = 0
             THEN /\ stack' = Pop(stack, t)
                  /\ mutex' = IF stub THEN Release("m_packets_mutex") ELSE mutex
             ELSE /\ stack' =
                       IF ~stub
                         THEN SetTop(stack, t, [Top(t) EXCEPT !.pc = "lock",
                                                              !.n = @ - 1,
                                                              !.pkt = Head(inbound)])
                       ELSE IF Top(t).h
                         THEN Push(SetTop(stack, t, [Top(t) EXCEPT !.n = @ - 1]), t,
                                   Frame("on_packet_received", "body", Head(inbound).sender,
                                         0, FALSE, Head(inbound), HeldBy(t)))
                         ELSE SetTop(stack, t, [Top(t) EXCEPT !.n = @ - 1])
                  /\ UNCHANGED mutex
        /\ UNCHANGED <<outsideThreads, m_connections, m_incoming_packets, sdk_packets>>

\* One turn of the loop of receive_packets: return, or take the next packet.
loop ==
    \E t \in Threads :
        /\ stack[t] # <<>>
        /\ Top(t).fn = "receive_packets" /\ Top(t).pc = "loop"
        /\ IF inbound = <<>> \/ Top(t).n = 0
             THEN /\ stack' = Pop(stack, t)
                  /\ mutex' = IF stub THEN Release("m_packets_mutex") ELSE mutex
                  /\ UNCHANGED <<m_incoming_packets, sdk_packets>>
             ELSE /\ m_incoming_packets' = IF stub THEN Tail(m_incoming_packets)
                                                   ELSE m_incoming_packets
                  /\ sdk_packets' = IF stub THEN sdk_packets ELSE Tail(sdk_packets)
                  /\ stack' =
                       IF ~stub
                         THEN SetTop(stack, t, [Top(t) EXCEPT !.pc = "lock",
                                                              !.n = @ - 1,
                                                              !.pkt = Head(inbound)])
                       ELSE IF Top(t).h
                         THEN Push(SetTop(stack, t, [Top(t) EXCEPT !.n = @ - 1]), t,
                                   Frame("on_packet_received", "body", Head(inbound).sender,
                                         0, FALSE, Head(inbound), HeldBy(t)))
                         ELSE SetTop(stack, t, [Top(t) EXCEPT !.n = @ - 1])
                  /\ UNCHANGED mutex
        /\ UNCHANGED <<outsideThreads, m_connections>>

\* if (handler) handler(...): the handler runs on the calling thread, which
\* holds what it holds.
invoke_handler ==
    \E t \in Threads :
        /\ stack[t] # <<>>
        /\ Top(t).pc \in {"notify", "deliver"}
        /\ LET next == IF Top(t).pc = "deliver" THEN "loop" ELSE "return"
               back == SetTop(stack, t, [Top(t) EXCEPT !.pc = next])
           IN  stack' =
                 IF Top(t).h
                   THEN Push(back, t,
                             Frame(HandlerOf(Top(t).fn), "body",
                                   IF Top(t).pc = "deliver" THEN Top(t).pkt.sender
                                                            ELSE Top(t).peer,
                                   0, FALSE, Top(t).pkt, HeldBy(t)))
                   ELSE back
        /\ UNCHANGED <<outsideThreads, m_connections, m_incoming_packets, sdk_packets, mutex>>

\* A handler, or a method whose work is done, returns to its caller.
return ==
    \E t \in Threads :
        /\ stack[t] # <<>>
        /\ Top(t).fn \in HandlerNames \/ Top(t).pc = "return"
        /\ stack' = Pop(stack, t)
        /\ UNCHANGED <<outsideThreads, m_connections, m_incoming_packets, sdk_packets, mutex>>

\* A one-byte packet on channel 0 from one of the threads' peers.
SmallPacket(pkt) ==
    pkt.size = HelloSize /\ pkt.channel = HelloChannel /\ pkt.sender \in ThreadPeers

\* Two threads: the consumer, its handlers set, calls the methods and
\* drains; the SDK notifies and delivers one-byte packets.
NextThreads ==
    \/ call_method /\ UNCHANGED handed
    \/ sdk_notification /\ UNCHANGED handed
    \/ acquire /\ UNCHANGED handed
    \/ critical /\ UNCHANGED handed
    \/ transport_call /\ UNCHANGED handed
    \/ hello /\ UNCHANGED handed
    \/ loop /\ UNCHANGED handed
    \/ invoke_handler /\ UNCHANGED handed
    \/ return /\ UNCHANGED handed
    \/ /\ transport_receive
       /\ \A pkt \in Range(sdk_packets') : SmallPacket(pkt)
       /\ UNCHANGED historyVars
    \/ /\ enqueue_packet
       /\ mutex["m_packets_mutex"] = Free
       /\ \A pkt \in Range(m_incoming_packets') : SmallPacket(pkt)
       /\ UNCHANGED historyVars

SpecThreads == InitReady /\ [][NextThreads]_vars

(* ----------------------- lookups against shutdown ---------------------- *)
\* get_peer_connection or get_all_connections is entered: by the consumer's
\* thread from outside, or from inside a handler by the thread that runs it.
call_query ==
    \E t \in Threads, fn \in QueryMethods :
      \E peer \in IF fn = "get_peer_connection" THEN ThreadPeers ELSE {Nil} :
        /\ IF stack[t] = <<>>
             THEN t = "consumer"
             ELSE Top(t).fn \in HandlerNames /\ Len(stack[t]) < MaxDepth
        /\ stack' = Push(stack, t, Frame(fn, FirstPc(fn), peer, 0, FALSE, NoPacket, {}))
        /\ UNCHANGED <<outsideThreads, m_connections, m_incoming_packets, sdk_packets, mutex>>

\* The consumer's thread enters shutdown on an initialized manager.
call_shutdown ==
    /\ m_initialized
    /\ stack["consumer"] = <<>>
    /\ stack' = Push(stack, "consumer",
                     Frame("shutdown", FirstPc("shutdown"), Nil, 0, FALSE, NoPacket, {}))
    /\ UNCHANGED <<outsideThreads, m_connections, m_incoming_packets, sdk_packets, mutex>>

\* The SDK build's shutdown calls disconnect_all (unregister_callbacks, which
\* follows, is empty).
call_disconnect_all ==
    \E t \in Threads :
        /\ stack[t] # <<>>
        /\ Top(t).fn = "shutdown" /\ Top(t).pc = "disconnect_all"
        /\ stack' = Push(SetTop(stack, t, [Top(t) EXCEPT !.pc = "clear"]), t,
                         Frame("disconnect_all", FirstPc("disconnect_all"), Nil, 0, FALSE,
                               NoPacket, {}))
        /\ UNCHANGED <<outsideThreads, m_connections, m_incoming_packets, sdk_packets, mutex>>

\* The consumer's thread calls disconnect_all itself.
consumer_disconnect_all ==
    /\ stack["consumer"] = <<>>
    /\ stack' = Push(stack, "consumer",
                     Frame("disconnect_all", FirstPc("disconnect_all"), Nil, 0, FALSE,
                           NoPacket, {}))
    /\ UNCHANGED <<outsideThreads, m_connections, m_incoming_packets, sdk_packets, mutex>>

\* The loop of disconnect_all over the peers it copied: the frame keeps the
\* copy in peer, and is done once the copied peer has been disconnected.
each ==
    \E t \in Threads :
        /\ stack[t] # <<>>
        /\ Top(t).fn = "disconnect_all" /\ Top(t).pc = "each"
        /\ stack' =
              IF Top(t).peer = Nil
                THEN Pop(stack, t)
              ELSE IF ~m_initialized
                THEN SetTop(stack, t, [Top(t) EXCEPT !.pc = "return"])
                ELSE Push(SetTop(stack, t, [Top(t) EXCEPT !.pc = "return"]), t,
                          Frame("disconnect_from_peer", FirstPc("disconnect_from_peer"),
                                Top(t).peer, 0, TRUE, NoPacket, {}))
        /\ UNCHANGED <<outsideThreads, m_connections, m_incoming_packets, sdk_packets, mutex>>

\* m_connections.clear(); m_initialized = false; with no lock_guard in scope.
clear ==
    \E t \in Threads :
        /\ stack[t] # <<>>
        /\ Top(t).fn = "shutdown" /\ Top(t).pc = "clear"
        /\ m_connections' = [p \in Peers |-> NoEntry]
        /\ m_initialized' = FALSE
        /\ stack' = Pop(stack, t)
        /\ UNCHANGED <<stub, authVars, callbacks_registered, m_config, queueVars, lastOp,
                       established_fired, accept_filter, sdk_accepted, dropped, stale,
                       mutex>>

\* The two threads with the lookups and shutdown among the consumer's calls.
NextLookups ==
    \/ call_method /\ UNCHANGED handed
    \/ call_query /\ UNCHANGED handed
    \/ call_shutdown /\ UNCHANGED handed
    \/ call_disconnect_all /\ UNCHANGED handed
    \/ consumer_disconnect_all /\ UNCHANGED handed
    \/ each /\ UNCHANGED handed
    \/ clear /\ UNCHANGED handed
    \/ sdk_notification /\ UNCHANGED handed
    \/ acquire /\ UNCHANGED handed
    \/ critical /\ UNCHANGED handed
    \/ transport_call /\ UNCHANGED handed
    \/ hello /\ UNCHANGED handed
    \/ loop /\ UNCHANGED handed
    \/ invoke_handler /\ UNCHANGED handed
    \/ return /\ UNCHANGED handed

SpecLookups == InitReady /\ [][NextLookups]_vars

\* stale is the set of packets that were waiting when an initialized
\* manager was last shut down.
TrackStale ==
    /\ stale' = IF m_initialized THEN Range(inbound) ELSE stale
    /\ UNCHANGED <<established_fired, accept_filter, sdk_accepted, dropped, handed,
                   threadVars>>

\* Restarts: remote peers send, the transport hands over, the consumer
\* drains, shuts the manager down and initializes it again.
NextRestart ==
    \/ remote_send /\ UNCHANGED historyVars
    \/ hand_over /\ UNCHANGED historyVars
    \/ receive_packets /\ UNCHANGED historyVars
    \/ initialize /\ UNCHANGED historyVars
    \/ shutdown /\ TrackStale

SpecRestart == InitReady /\ [][NextRestart]_vars

(* --------------------------- drains on two threads --------------------- *)
\* receive_packets is entered from outside by either thread, its packet
\* handler set.
call_drain ==
    \E t \in Threads, n \in 1..MaxDrain :
        /\ m_initialized
        /\ stack[t] = <<>>
        /\ stack' = Push(stack, t, Frame("receive_packets", FirstPc("receive_packets"), Nil,
                                        n, TRUE, NoPacket, {}))
        /\ UNCHANGED <<outsideThreads, m_connections, m_incoming_packets, sdk_packets, mutex>>

\* The step is thread t's call of on_packet_received.
HandlerPushed(t) ==
    /\ Len(stack'[t]) = Len(stack[t]) + 1
    /\ stack'[t][Len(stack'[t])].fn = "on_packet_received"

\* handed collects the packets the handler was called with.
TrackHanded ==
    handed' = handed \cup {stack'[t][Len(stack'[t])].pkt :
                               t \in {u \in Threads : HandlerPushed(u)}}

\* Remote peers send numbered datagrams, the transport hands them over and
\* both threads drain.
NextDrains ==
    \/ /\ remote_send
       /\ \A pkt \in inflight' : SmallPacket(pkt)
       /\ UNCHANGED historyVars
    \/ /\ hand_over
       /\ stub => mutex["m_packets_mutex"] = Free
       /\ UNCHANGED historyVars
    \/ call_drain /\ UNCHANGED handed
    \/ acquire /\ UNCHANGED handed
    \/ critical /\ UNCHANGED handed
    \/ loop /\ TrackHanded
    \/ invoke_handler /\ TrackHanded
    \/ return /\ UNCHANGED handed

SpecDrains == InitReady /\ [][NextDrains]_vars

(* ------------------------------- claims -------------------------------- *)
EstablishedEvent(p) == ConnEvent("on_connection_established", p, "Connected")
ClosedEvent(p) == ConnEvent("on_connection_closed", p, "Disconnected")

\* The senders of the packets the last receive_packets gave to the handler.
DeliveredFrom(op) ==
    {op.events[i].packet.sender : i \in 1..Len(op.events)}

\* C1, as the specification states it: once connect(P) has been called and a
\* drain has delivered a packet from P, P is Connected and on-connected has
\* been invoked exactly once for P.
C1_ConnectedAfterDelivery ==
    \A p \in Peers :
        (/\ lastOp.op = "receive_packets"
         /\ p \in DeliveredFrom(lastOp)
         /\ established_fired[p] # -1)
        => (StatusOf(m_connections, p) = "Connected" /\ established_fired[p] = 1)

\* C1, amended: delivering packets changes no peer's status and invokes no
\* on-connected handler; a peer becomes Connected when the established
\* notification for it is handled, which invokes on-connected exactly once
\* per notification, and in the stub build by connect_to_peer itself, which
\* invokes it once per call.
C1_ConnectedByNotification ==
    [][/\ lastOp'.op = "receive_packets" =>
            /\ \A p \in Peers : StatusOf(m_connections', p) = StatusOf(m_connections, p)
            /\ established_fired' = established_fired
       /\ \A p \in Peers :
            (lastOp'.op = "handle_connection_established" /\ lastOp'.peer = p) =>
                /\ StatusOf(m_connections', p) = "Connected"
                /\ lastOp'.events = <<EstablishedEvent(p)>>
       /\ \A p \in Peers :
            (lastOp'.op = "connect_to_peer" /\ lastOp'.peer = p) =>
                /\ StatusOf(m_connections', p) = IF stub THEN "Connected" ELSE "Connecting"
                /\ lastOp'.events = IF stub THEN <<EstablishedEvent(p)>> ELSE <<>>
      ]_vars

\* A drain has delivered a packet from a peer that connect_to_peer left
\* Connecting and for which no on-connected handler has run.
C1_Witness ==
    \E p \in Peers :
        /\ lastOp.op = "receive_packets"
        /\ p \in DeliveredFrom(lastOp)
        /\ established_fired[p] = 0
        /\ StatusOf(m_connections, p) = "Connecting"

\* C2: disconnect_from_peer on a peer without an entry changes nothing and
\* invokes no handler.
C2_DisconnectUnknownIsNoOp ==
    [][\A p \in Peers :
          (/\ lastOp'.op = "disconnect_from_peer" /\ lastOp'.peer = p
           /\ ~HasEntry(m_connections, p))
          => (m_connections' = m_connections /\ lastOp'.events = <<>>)
      ]_vars

C4_BroadcastToNobody ==
    [][(/\ lastOp'.op = "broadcast_packet"
        /\ \A p \in Peers : StatusOf(m_connections, p) # "Connected") =>
          (lastOp'.calls = <<>> /\ m_connections' = m_connections)
      ]_vars

\* A valid payload was broadcast while the only entries were Connecting.
C4_Witness ==
    /\ lastOp.op = "broadcast_packet" /\ m_initialized
    /\ lastOp.n \in 1..m_config.max_packet_size
    /\ \E p \in Peers : StatusOf(m_connections, p) = "Connecting"
    /\ \A p \in Peers : StatusOf(m_connections, p) # "Connected"

\* TRUE when the packets of one sender and channel appear in events in the
\* order in which the sender sent them.
InSendOrder(events) ==
    \A i, j \in 1..Len(events) :
        (/\ i < j
         /\ events[i].packet.sender = events[j].packet.sender
         /\ events[i].packet.channel = events[j].packet.channel)
        => events[i].packet.seq < events[j].packet.seq

\* C5, as the specification states it: the handler sees the ReliableOrdered
\* packets of one peer and channel in sending order, whatever the order in
\* which the transport handed them over.
C5_HandlerSeesSendOrder ==
    lastOp.op = "receive_packets" => InSendOrder(lastOp.events)

\* C5, amended: receive_packets invokes the handler on the packets in the
\* order in which the transport's receive buffer hands them over, and leaves
\* the rest of the buffer as it was; it reorders nothing.
C5_HandlerSeesBufferOrder ==
    [][lastOp'.op = "receive_packets" =>
          /\ lastOp'.ok <= Len(inbound)
          /\ lastOp'.handler =>
                lastOp'.events = [i \in 1..lastOp'.ok |-> PacketEvent(inbound[i])]
          /\ inbound' = SubSeq(inbound, lastOp'.ok + 1, Len(inbound))
      ]_vars

\* One drain gave the handler three packets of one peer and channel, the
\* first of them sent after the second.
C5_Witness ==
    /\ lastOp.op = "receive_packets"
    /\ Len(lastOp.events) = 3
    /\ lastOp.events[1].packet.sender = lastOp.events[2].packet.sender
    /\ lastOp.events[1].packet.channel = lastOp.events[2].packet.channel
    /\ lastOp.events[1].packet.seq > lastOp.events[2].packet.seq

\* C6: connect_to_peer on a peer that is already Connecting hands no hello
\* to the transport.
C6_NoSecondHello ==
    [][\A p \in Peers :
          (/\ lastOp'.op = "connect_to_peer" /\ lastOp'.peer = p
           /\ StatusOf(m_connections, p) = "Connecting")
          => lastOp'.calls = <<>>
      ]_vars

\* C7: while the consumer has accepted connections from Q only, no other
\* peer gets an entry in the table.
C7_OnlyAcceptedPeerConnects ==
    \A q \in Peers :
        accept_filter = {q} => \A r \in Peers \ {q} : ~HasEntry(m_connections, r)

\* C8: connect_to_peer on a peer that is already Connected changes nothing,
\* sends nothing and invokes no handler.
C8_ConnectWhenConnectedIsNoOp ==
    [][\A p \in Peers :
          (/\ lastOp'.op = "connect_to_peer" /\ lastOp'.peer = p
           /\ StatusOf(m_connections, p) = "Connected")
          => /\ m_connections' = m_connections
             /\ lastOp'.calls = <<>>
             /\ lastOp'.events = <<>>
      ]_vars

\* The hello of connect_to_peer: one packet of one byte for p, on channel 0,
\* ReliableOrdered.
IsHelloFor(calls, p) ==
    /\ Len(calls) = 1
    /\ calls[1].fn = "EOS_P2P_SendPacket"
    /\ calls[1].peer = p
    /\ calls[1].size = HelloSize
    /\ calls[1].channel = HelloChannel
    /\ calls[1].rel = "ReliableOrdered"

\* C9, as the specification states it: connect_to_peer on a peer without an
\* entry creates a Connecting entry and hands one hello to the transport.
C9_ConnectCreatesConnecting ==
    [][\A p \in Peers :
          (/\ lastOp'.op = "connect_to_peer" /\ lastOp'.peer = p
           /\ m_initialized /\ ~HasEntry(m_connections, p))
          => /\ StatusOf(m_connections', p) = "Connecting"
             /\ IsHelloFor(lastOp'.calls, p)
      ]_vars

\* C9, amended: that holds of the SDK build; the stub build creates the
\* entry in Connected state and hands nothing to the transport.
C9_ConnectPerBuild ==
    [][\A p \in Peers :
          (/\ lastOp'.op = "connect_to_peer" /\ lastOp'.peer = p
           /\ m_initialized /\ ~HasEntry(m_connections, p))
          => IF stub
               THEN /\ StatusOf(m_connections', p) = "Connected"
                    /\ lastOp'.calls = <<>>
               ELSE /\ StatusOf(m_connections', p) = "Connecting"
                    /\ IsHelloFor(lastOp'.calls, p)
      ]_vars

\* The SDK build has just connected to a peer that had no entry.
C9_Witness ==
    /\ ~stub /\ m_initialized
    /\ lastOp.op = "connect_to_peer" /\ lastOp.peer \in Peers
    /\ lastOp.pre = "absent"
    /\ StatusOf(m_connections, lastOp.peer) = "Connecting"
    /\ IsHelloFor(lastOp.calls, lastOp.peer)

\* C10: disconnect_from_peer on a peer with an entry removes the entry and,
\* a connection-closed handler being set, invokes it once with Disconnected.
C10_DisconnectRemovesAndNotifies ==
    [][\A p \in Peers :
          (/\ lastOp'.op = "disconnect_from_peer" /\ lastOp'.peer = p
           /\ m_initialized /\ HasEntry(m_connections, p) /\ lastOp'.handler)
          => /\ ~HasEntry(m_connections', p)
             /\ lastOp'.events = <<ClosedEvent(p)>>
      ]_vars

\* C11: send_packet with an empty payload, a payload longer than
\* max_packet_size or a nil peer returns false, calls nothing on the
\* transport and leaves the connection table, byte counters included, as it
\* was, whatever the peer's connection state.
C11_SendRejectsInvalid ==
    [][(/\ lastOp'.op = "send_packet"
        /\ \/ lastOp'.n = 0
           \/ lastOp'.n > m_config.max_packet_size
           \/ lastOp'.peer = Nil)
       => /\ ~lastOp'.ok
          /\ lastOp'.calls = <<>>
          /\ m_connections' = m_connections
      ]_vars

\* An empty payload was refused for a peer that is Connected.
C11_Witness ==
    /\ lastOp.op = "send_packet" /\ m_initialized
    /\ lastOp.n = 0
    /\ lastOp.pre = "Connected"
    /\ ~lastOp.ok

DeliveredPackets(op) == {op.events[i].packet : i \in 1..Len(op.events)}

\* C18: a packet receive_packets reaches while no packet handler is set is
\* removed from the buffer without a handler call, and no later
\* receive_packets delivers it.
C18_DiscardedForGood ==
    /\ (lastOp.op = "receive_packets" /\ ~lastOp.handler) => lastOp.events = <<>>
    /\ \A pkt \in dropped :
          /\ pkt \notin Range(inbound)
          /\ pkt \notin inflight
          /\ lastOp.op = "receive_packets" => pkt \notin DeliveredPackets(lastOp)

\* After a packet was discarded for want of a handler, a drain with a
\* handler set has delivered another packet.
C18_Witness ==
    /\ dropped # {}
    /\ lastOp.op = "receive_packets"
    /\ lastOp.handler
    /\ lastOp.events # <<>>

\* C19: broadcast_packet of a valid payload sends once to each peer that is
\* Connected when it is called and to no other peer: the SDK build calls
\* EOS_P2P_SendPacket once per Connected peer, the stub build counts the
\* bytes once per Connected peer, and no other entry changes.
C19_BroadcastFanOut ==
    [][(/\ lastOp'.op = "broadcast_packet" /\ m_initialized
        /\ lastOp'.n \in 1..m_config.max_packet_size) =>
          LET connected == {p \in Peers : StatusOf(m_connections, p) = "Connected"}
              calls == lastOp'.calls
          IN  /\ ~stub =>
                    /\ Len(calls) = Cardinality(connected)
                    /\ {calls[i].peer : i \in 1..Len(calls)} = connected
                    /\ \A i \in 1..Len(calls) :
                          /\ calls[i].fn = "EOS_P2P_SendPacket"
                          /\ calls[i].size = lastOp'.n
              /\ stub =>
                    /\ calls = <<>>
                    /\ \A p \in connected :
                          m_connections'[p].bytes_sent
                             = m_connections[p].bytes_sent + lastOp'.n
              /\ \A p \in Peers \ connected : m_connections'[p] = m_connections[p]
      ]_vars

\* The SDK build has broadcast to the one Connected peer while another
\* peer was Connecting.
C19_Witness ==
    /\ ~stub /\ m_initialized
    /\ lastOp.op = "broadcast_packet"
    /\ Len(lastOp.calls) = 1
    /\ \E p \in Peers : StatusOf(m_connections, p) = "Connecting"

HandlerFrames(t) == {i \in 1..Len(stack[t]) : stack[t][i].fn \in HandlerNames}
InHandler(t) == HandlerFrames(t) # {}
InDrain(t) == \E i \in 1..Len(stack[t]) : stack[t][i].fn = "receive_packets"

C15_NoLockHeldAtHandlerCall ==
    \A t \in Threads : \A i \in HandlerFrames(t) : stack[t][i].held = {}

\* TRUE when thread t runs send_packet or disconnect_from_peer called from
\* inside a handler.
Reentered(t) ==
    /\ Len(stack[t]) >= 2
    /\ Top(t).fn \in ReentrantMethods
    /\ stack[t][Len(stack[t]) - 1].fn \in HandlerNames

\* C16: a thread that calls send_packet or disconnect_from_peer from inside
\* a handler never waits for a mutex it holds itself.
C16_ReentrantCallNeverSelfBlocks ==
    \A t \in Threads :
        (Reentered(t) /\ Top(t).pc = "lock") => mutex[scoped_lock(Top(t).fn)] # t

\* The stub build's drain holds the packet queue's mutex, its packet handler
\* has called send_packet, and send_packet has got the table's mutex.
C16_Witness ==
    \E t \in Threads :
        /\ Reentered(t)
        /\ Top(t).fn = "send_packet"
        /\ Top(t).pc = "locked"
        /\ stack[t][Len(stack[t]) - 1].fn = "on_packet_received"
        /\ mutex["m_packets_mutex"] = t
        /\ mutex["m_connections_mutex"] = t

\* C21: while a peer keeps its entry, no step makes its bytes_sent or its
\* bytes_received smaller.
C21_CountersNeverDecrease ==
    [][\A p \in Peers :
          (HasEntry(m_connections, p) /\ HasEntry(m_connections', p))
          => /\ get_peer_connection(m_connections', p).bytes_sent
                  >= get_peer_connection(m_connections, p).bytes_sent
             /\ get_peer_connection(m_connections', p).bytes_received
                  >= get_peer_connection(m_connections, p).bytes_received
      ]_vars

\* C23, as the specification states it: a shutdown of an initialized manager
\* followed by an initialize leaves the configuration that get_config returns
\* as it was.
C23_ConfigSetOnce ==
    [][(/\ lastOp.op = "shutdown" /\ lastOp.pre = "initialized"
        /\ lastOp'.op = "initialize")
       => m_config' = m_config
      ]_vars

\* C23, amended: no step taken while the manager is initialized changes the
\* configuration; a further initialize on an initialized manager returns true
\* and keeps the configuration of the first.
C23_ConfigFixedWhileInitialized ==
    [][m_initialized
       => /\ m_config' = m_config
          /\ lastOp'.op = "initialize" => (lastOp'.ok /\ m_initialized')
      ]_vars

\* An initialize with another configuration was called on an initialized
\* manager.
C23_Witness ==
    /\ lastOp.op = "initialize" /\ lastOp.ok
    /\ m_initialized
    /\ lastOp.n # m_config.max_packet_size

\* C24, as the specification states it: a drain that hands over a packet
\* from a peer without an entry leaves that peer Connected and invokes
\* on-connected for it.
C24_PacketEstablishes ==
    [][\A p \in Peers :
          (/\ lastOp'.op = "receive_packets"
           /\ p \in DeliveredFrom(lastOp')
           /\ ~HasEntry(m_connections, p))
          => /\ StatusOf(m_connections', p) = "Connected"
             /\ \E i \in 1..Len(lastOp'.events) :
                    lastOp'.events[i] = EstablishedEvent(p)
      ]_vars

\* C24, amended: a drain creates no entry and invokes no connection handler;
\* the entry of a peer without one is created, Connected and with zeroed
\* counters, by the connection-established notification, which invokes
\* on-connected once when that handler is set.
C24_NotificationEstablishes ==
    [][\A p \in Peers :
          /\ (lastOp'.op = "receive_packets" /\ ~HasEntry(m_connections, p))
             => /\ ~HasEntry(m_connections', p)
                /\ \A i \in 1..Len(lastOp'.events) :
                       lastOp'.events[i].h = "on_packet_received"
          /\ (/\ lastOp'.op = "handle_connection_established" /\ lastOp'.peer = p
              /\ ~HasEntry(m_connections, p))
             => /\ m_connections' =
                      [m_connections EXCEPT ![p] = PeerConnection(p, "", "Connected", 0)]
                /\ lastOp'.events = IF lastOp'.handler THEN <<EstablishedEvent(p)>>
                                                       ELSE <<>>
      ]_vars

\* The notification made an entry for a peer that had none.
C24_Witness ==
    /\ lastOp.op = "handle_connection_established"
    /\ lastOp.pre = "absent"
    /\ is_connected_to(m_connections, lastOp.peer)
    /\ lastOp.events = <<EstablishedEvent(lastOp.peer)>>

\* C25: when the transport reports that the connection of a Connecting peer
\* is gone, the peer's entry becomes Failed and the connection-closed handler
\* is invoked for it with the failure as its reason.
C25_UnreachablePeerFails ==
    [][\A p \in Peers :
          (/\ lastOp'.op = "handle_connection_closed" /\ lastOp'.peer = p
           /\ StatusOf(m_connections, p) = "Connecting"
           /\ lastOp'.handler)
          => /\ StatusOf(m_connections', p) = "ConnectionFailed"
             /\ lastOp'.events =
                   <<ConnEvent("on_connection_closed", p, "ConnectionFailed")>>
      ]_vars

\* C26: a send_packet that the transport refused returns false and leaves
\* the whole table as it was.
C26_RefusedSendChangesNothing ==
    [][(/\ lastOp'.op = "send_packet"
        /\ Len(lastOp'.calls) = 1
        /\ ~lastOp'.calls[1].ok)
       => /\ ~lastOp'.ok
          /\ m_connections' = m_connections
      ]_vars

\* The transport refused a packet for a Connected peer, whose entry and
\* count of sent bytes survive.
C26_Witness ==
    /\ lastOp.op = "send_packet" /\ lastOp.peer \in Peers
    /\ lastOp.pre = "Connected"
    /\ Len(lastOp.calls) = 1 /\ ~lastOp.calls[1].ok
    /\ is_connected_to(m_connections, lastOp.peer)

\* C27: get_peer_connection(P) returns a connection exactly when
\* is_connected_to(P) is true.
C27_InfoIffConnected ==
    \A p \in Peers :
        (get_peer_connection(m_connections, p) # nullopt)
            <=> is_connected_to(m_connections, p)

\* C28: after shutdown of an initialized manager the table is empty, no peer
\* is connected and the manager is uninitialized.
C28_ShutdownEmptiesTable ==
    (lastOp.op = "shutdown" /\ lastOp.pre = "initialized")
    => /\ get_all_connections(m_connections) = {}
       /\ get_peer_count(m_connections) = 0
       /\ \A p \in Peers : ~is_connected_to(m_connections, p)
       /\ ~m_initialized

\* A shutdown of an initialized manager that had entries.
C28_Witness ==
    /\ lastOp.op = "shutdown" /\ lastOp.pre = "initialized"
    /\ lastOp.n >= 1

\* C29: in the stub build of an initialized manager, connect_to_peer(P)
\* leaves P connected and counted, and a send_packet to P that follows it
\* with 1..max_packet_size bytes returns true.
C29_StubConnectThenSend ==
    [][\A p \in Peers :
          /\ (/\ stub /\ m_initialized
              /\ lastOp'.op = "connect_to_peer" /\ lastOp'.peer = p)
             => /\ is_connected_to(m_connections', p)
                /\ get_peer_count(m_connections') >= 1
          /\ (/\ stub /\ m_initialized
              /\ lastOp.op = "connect_to_peer" /\ lastOp.peer = p
              /\ lastOp'.op = "send_packet" /\ lastOp'.peer = p
              /\ lastOp'.n \in 1..m_config.max_packet_size)
             => lastOp'.ok
      ]_vars

\* The stub build sent a packet to the peer it had just connected.
C29_Witness ==
    /\ stub /\ m_initialized
    /\ lastOp.op = "send_packet" /\ lastOp.peer \in Peers
    /\ lastOp.ok /\ lastOp.n >= 1
    /\ lastOp.pre = "Connected"
    /\ get_peer_connection(m_connections, lastOp.peer).bytes_sent = lastOp.n

\* C30, as the specification states it: the drain that follows
\* disconnect(P) invokes the packet handler for no packet from P.
C30_NoDeliveryAfterDisconnect ==
    [][\A p \in Peers :
          (/\ lastOp.op = "disconnect_from_peer" /\ lastOp.peer = p
           /\ ~HasEntry(m_connections, p)
           /\ lastOp'.op = "receive_packets")
          => p \notin DeliveredFrom(lastOp')
      ]_vars

\* C30, amended: receive_packets does not consult the table: with a handler
\* set it invokes the handler for every packet it takes, from peers without
\* an entry too, and it gives such a peer no entry.
C30_DrainIgnoresTable ==
    [][(lastOp'.op = "receive_packets" /\ lastOp'.handler)
       => /\ Len(lastOp'.events) = lastOp'.ok
          /\ \A i \in 1..Len(lastOp'.events) :
                 lastOp'.events[i] = PacketEvent(inbound[i])
          /\ \A p \in Peers :
                 ~HasEntry(m_connections, p) => ~HasEntry(m_connections', p)
      ]_vars

\* A drain gave the handler a packet from a peer that has no entry.
C30_Witness ==
    /\ lastOp.op = "receive_packets"
    /\ \E p \in DeliveredFrom(lastOp) : ~HasEntry(m_connections, p)

\* A thread is in the critical section of a lookup, reading the table.
LookupAccess(t) ==
    /\ stack[t] # <<>>
    /\ Top(t).fn \in QueryMethods /\ Top(t).pc = "locked"

\* A thread is at a statement that changes the table.
TableUpdate(t) ==
    /\ stack[t] # <<>>
    /\ \/ Top(t).pc = "clear"
       \/ /\ Top(t).pc = "locked"
          /\ Top(t).fn \notin QueryMethods \cup {"disconnect_all"}
          /\ scoped_lock(Top(t).fn) = "m_connections_mutex"

InDisconnectAll(t, pc) ==
    /\ stack[t] # <<>>
    /\ Top(t).fn = "disconnect_all" /\ Top(t).pc = pc

C31_HandedAtMostOnce ==
    [][\A t \in Threads :
          HandlerPushed(t)
          => LET pkt == stack'[t][Len(stack'[t])].pkt
             IN  /\ pkt \notin handed
                 /\ pkt \notin Range(m_incoming_packets')
                 /\ pkt \notin Range(sdk_packets')
                 /\ pkt \notin inflight'
      ]_vars

\* Both threads are in receive_packets and the handler has been called with
\* two packets.
C31_Witness ==
    /\ InDrain("consumer") /\ InDrain("notifier")
    /\ Cardinality(handed) >= 2

\* C32: no entry of the table has status Disconnected: every entry, and so
\* every connection get_all_connections returns, is Connecting, Connected or
\* Failed.
C32_NoDisconnectedEntry ==
    /\ \A p \in Peers :
          HasEntry(m_connections, p)
          => m_connections[p].status \in {"Connecting", "Connected", "ConnectionFailed"}
    /\ \A c \in get_all_connections(m_connections) :
          c.status \in {"Connecting", "Connected", "ConnectionFailed"}

\* The connection-closed notification has removed an entry while another
\* peer keeps its own.
C32_Witness ==
    /\ lastOp.op = "handle_connection_closed"
    /\ lastOp.pre \in {"Connecting", "Connected"}
    /\ get_peer_connection(m_connections, lastOp.peer) = nullopt
    /\ get_all_connections(m_connections) # {}

\* The operations that test m_initialized themselves or through the method
\* they call.
GuardedOps ==
    {"connect_to_peer", "disconnect_from_peer", "disconnect_all", "accept_connections",
     "send_packet", "broadcast_packet", "receive_packets"}

\* C34: on an uninitialized manager connect_to_peer, disconnect_from_peer,
\* disconnect_all, accept_connections, send_packet, broadcast_packet and
\* receive_packets change neither the table nor the queue, call nothing on
\* the transport and invoke no handler; send_packet returns false and
\* receive_packets returns 0.
C34_UninitializedIsInert ==
    [][(~m_initialized /\ lastOp'.op \in GuardedOps)
       => /\ m_connections' = m_connections
          /\ m_incoming_packets' = m_incoming_packets
          /\ sdk_packets' = sdk_packets
          /\ lastOp'.calls = <<>>
          /\ lastOp'.events = <<>>
          /\ lastOp'.op = "send_packet" => ~lastOp'.ok
          /\ lastOp'.op = "receive_packets" => lastOp'.ok = 0
      ]_vars

\* disconnect_from_peer was called, its handler set, on an uninitialized
\* manager for a peer that has an entry.
C34_Witness ==
    /\ ~m_initialized
    /\ lastOp.op = "disconnect_from_peer"
    /\ lastOp.handler
    /\ HasEntry(m_connections, lastOp.peer)

\* C35: initialize on an initialized manager returns true and leaves the
\* manager initialized, its configuration, its table, its registration with
\* the SDK and its queue as they were, whatever configuration it is given
\* and whether or not the user is logged in.
C35_InitializeIsIdempotent ==
    [][(m_initialized /\ lastOp'.op = "initialize")
       => /\ lastOp'.ok
          /\ m_initialized'
          /\ UNCHANGED <<m_config, m_connections, callbacks_registered,
                         m_incoming_packets, sdk_packets>>
      ]_vars

\* initialize returned true for a logged-out user and another configuration
\* on an initialized manager that has an entry.
C35_Witness ==
    /\ lastOp.op = "initialize" /\ lastOp.ok
    /\ m_initialized /\ ~m_logged_in
    /\ lastOp.n # m_config.max_packet_size
    /\ \E p \in Peers : HasEntry(m_connections, p)

\* C36: while the manager is uninitialized the table is empty.
C36_EmptyWhileUninitialized ==
    ~m_initialized => \A p \in Peers : ~HasEntry(m_connections, p)

\* The on_connection_closed invocations for p among events.
RECURSIVE CountClosed(_, _)
CountClosed(events, p) ==
    IF events = <<>> THEN 0
    ELSE (IF Head(events).h = "on_connection_closed" /\ Head(events).peer = p
            THEN 1 ELSE 0) + CountClosed(Tail(events), p)

\* C37: a step that removes a peer's entry while on_connection_closed is set
\* invokes on_connection_closed exactly once for that peer.
C37_RemovalsAreReported ==
    [][\A p \in Peers :
          (/\ HasEntry(m_connections, p) /\ ~HasEntry(m_connections', p)
           /\ lastOp'.op \in {"disconnect_from_peer", "disconnect_all", "shutdown",
                              "handle_connection_closed"}
           /\ lastOp'.handler)
          => CountClosed(lastOp'.events, p) = 1
      ]_vars

\* C38: whenever the manager is initialized the user is logged in.
C38_InitializedImpliesLoggedIn ==
    m_initialized => m_logged_in

\* C39, as the specification states it: no receive_packets gives the handler
\* a packet that was waiting when the manager was last shut down.
C39_ShutdownDiscardsQueue ==
    [][lastOp'.op = "receive_packets"
       => DeliveredPackets(lastOp') \cap stale = {}
      ]_vars

\* C39, amended: shutdown and initialize leave the waiting packets where
\* they are, and receive_packets on the manager initialized again gives its
\* handler the first packets waiting, whenever they arrived.
C39_QueueSurvivesRestart ==
    [][/\ lastOp'.op \in {"shutdown", "initialize"}
          => /\ m_incoming_packets' = m_incoming_packets
             /\ sdk_packets' = sdk_packets
       /\ (lastOp'.op = "receive_packets" /\ lastOp'.handler /\ m_initialized)
          => /\ lastOp'.ok = Min(Len(inbound), lastOp'.n)
             /\ Len(lastOp'.events) = lastOp'.ok
             /\ \A i \in 1..Len(lastOp'.events) :
                    lastOp'.events[i].packet = inbound[i]
      ]_vars

\* A drain after a restart gave the handler a packet that had been waiting
\* at the shutdown.
C39_Witness ==
    /\ lastOp.op = "receive_packets"
    /\ m_initialized
    /\ DeliveredPackets(lastOp) \cap stale # {}
====
